---- MODULE Spec2Model ----
(***************************************************************************)
(* A model of the Blender add-on "Procedural Model Sideview Creator"       *)
(* (SideviewCreator2.py): the six-camera orthographic rig, the 3x2 atlas   *)
(* ("collage") written by the render operator, the crop of a returned      *)
(* atlas into six slot textures, and the cycling index over the numbered   *)
(* candidate atlases.                                                      *)
(*                                                                         *)
(* Conventions.                                                            *)
(*  - An image is a term built from the Pillow calls the code makes        *)
(*    (Image.new, paste, crop) over source rasters whose pixel (u, v) is   *)
(*    the symbolic colour <<id, u, v>>; Pixel evaluates such a term.       *)
(*    A PNG save followed by an open keeps every pixel.                    *)
(*  - Floating point coordinates are integers; float('inf'), -inf and nan  *)
(*    are the extended numbers PInf, NInf and NaN.  ortho_scale is kept    *)
(*    in tenths (x * 1.1 is 11 x tenths), z_center in halves.              *)
(*  - The output folder holds `files`, a function from file name to image. *)
(*  - A record constructor lists its fields in the order of their first    *)
(*    appearance in this module, the order in which TLC keeps them.        *)
(***************************************************************************)
EXTENDS Integers, Sequences, FiniteSets, TLC

VARIABLES
    objects,               \* bpy.data.objects: name -> object record
    collection,            \* the "Orthogonal Cameras" collection: absent / linked / unlinked
    resolution,            \* scene.render.resolution_x, resolution_y
    material,              \* bpy.data.materials.get("ApplyTextures")
    blend_file,            \* MaterialFile.blend beside the add-on
    output_folder,         \* props.output_folder
    current_output_index,  \* props.current_output_index
    files,                 \* the files of the output folder
    temp_files,            \* the files tempfile.NamedTemporaryFile left on disk
    printed,               \* the temporary files the console reports as not deleted
    pc,                    \* position of the render operator ("idle" between operators)
    render_queue,          \* cameras of the collection still to render
    rendered_images,       \* the render operator's dictionary name -> image
    temp_path,             \* the render operator's current temporary file
    last                   \* the operator that ran last, its return value and reports

vars == <<objects, collection, resolution, material, blend_file, output_folder,
          current_output_index, files, temp_files, printed, pc, render_queue,
          rendered_images, temp_path, last>>

(***************************************************************************)
(* Bounds of the model.                                                    *)
(***************************************************************************)
\* current_output_index is an unbounded IntProperty; the model stops advancing here
MaxIndex == 12

\* how many times os.unlink may raise PermissionError
MaxFailedUnlinks == 2

(***************************************************************************)
(* Program constants.                                                      *)
(***************************************************************************)
CellSize == 512
CandidateEnd == 11
Margin == 20
MaxUVLayers == 8

Directions == <<"X", "Y", "Z", "-X", "-Y", "-Z">>

(***************************************************************************)
(* Generic helpers.                                                        *)
(***************************************************************************)
Range(s) == {s[i] : i \in DOMAIN s}

Restrict(f, S) == [k \in S |-> f[k]]

\* f with key k set to v
Put(f, k, v) == (k :> v) @@ f

(***************************************************************************)
(* Strings the code formats.                                               *)
(***************************************************************************)
Digit == <<"0", "1", "2", "3", "4", "5", "6", "7", "8", "9">>

\* f"{i:02}" for 0 <= i < 100: at least two digits, zero padded
Fmt02(i) ==
    IF i < 10 THEN "0" \o Digit[i + 1]
    ELSE Digit[(i \div 10) + 1] \o Digit[(i % 10) + 1]

\* f"AIGC_OUTPUT_{i:02}.png"
CandidateName(i) == "AIGC_OUTPUT_" \o Fmt02(i) \o ".png"

\* a name as the list of its parts between underscores: "_".join(parts)
RECURSIVE Join(_)
Join(parts) ==
    IF Len(parts) = 0 THEN ""
    ELSE IF Len(parts) = 1 THEN parts[1]
    ELSE parts[1] \o "_" \o Join(Tail(parts))

\* label.split('_')[-1]
LastPart(parts) == parts[Len(parts)]

CameraName(dir) == "Camera_" \o dir

SlotName(dir) == "T_B_" \o dir

PngName(stem) == stem \o ".png"

\* os.path.exists(os.path.join(output_folder, name))
Exists(name) == name \in DOMAIN files

(***************************************************************************)
(* Images.                                                                 *)
(***************************************************************************)
Transparent == <<"transparent", 0, 0>>

\* a raster from outside (a render, a generated atlas): every pixel distinct
SourceImage(id, w, h) == [id |-> id, w |-> w, h |-> h, kind |-> "src"]

\* Image.new("RGBA", (w, h)): all pixels (0, 0, 0, 0)
ImageNew(w, h) == [w |-> w, h |-> h, kind |-> "new"]

\* base.paste(img, (x, y)) without a mask: img's pixels replace base's
ImagePaste(base, img, x, y) ==
    [w |-> base.w, h |-> base.h, kind |-> "paste", base |-> base, img |-> img,
     x |-> x, y |-> y]

\* img.crop((l, t, r, b)): a (r-l) x (b-t) image; outside img it is filled with zeros
ImageCrop(img, l, t, r, b) ==
    [w |-> r - l, h |-> b - t, kind |-> "crop", img |-> img, x |-> l, y |-> t]

RECURSIVE Pixel(_, _, _)
Pixel(img, u, v) ==
    IF u < 0 \/ v < 0 \/ u >= img.w \/ v >= img.h THEN Transparent
    ELSE CASE img.kind = "src" -> <<img.id, u, v>>
           [] img.kind = "new" -> Transparent
           [] img.kind = "paste" ->
                IF /\ u >= img.x /\ u < img.x + img.img.w
                   /\ v >= img.y /\ v < img.y + img.img.h
                THEN Pixel(img.img, u - img.x, v - img.y)
                ELSE Pixel(img.base, u, v)
           [] img.kind = "crop" -> Pixel(img.img, u + img.x, v + img.y)

(***************************************************************************)
(* Objects of the scene.                                                   *)
(***************************************************************************)
\* the iteration order of bpy.data.objects / selected_objects / collection.objects
ObjectOrder ==
    <<"Cube", "Plane", "Light", "Camera", "Camera.001",
      "Camera_X", "Camera_Y", "Camera_Z", "Camera_-X", "Camera_-Y", "Camera_-Z">>

\* the objects of a set of names, in iteration order (a list comprehension's result)
ObjectsWhere(names) == SelectSeq(ObjectOrder, LAMBDA n : n \in names)

\* bpy.context.selected_objects restricted to obj.type == 'MESH'
SelectedMeshes ==
    ObjectsWhere({n \in DOMAIN objects : objects[n].selected /\ objects[n].type = "MESH"})

\* [obj for obj in cam_collection.objects if obj.type == 'CAMERA']
CollectionCameras ==
    ObjectsWhere({n \in DOMAIN objects : objects[n].in_cams /\ objects[n].type = "CAMERA"})

(***************************************************************************)
(* ApplyTexturesOperator.execute                                           *)
(***************************************************************************)
Report(level, what) == <<level, what>>

NodeReport(level, what, obj, node) == <<level, what, obj, node>>

sub_texture_order == <<"T_B_X", "T_B_Y", "T_B_Z", "T_B_-X", "T_B_-Y", "T_B_-Z">>

sub_texture_positions ==
    <<<<0, 0>>, <<512, 0>>, <<1024, 0>>, <<0, 512>>, <<512, 512>>, <<1024, 512>>>>

CropSlot_Transposed(collage, i) ==
    LET x == sub_texture_positions[i][2]
        y == sub_texture_positions[i][1]
    IN  ImageCrop(collage, x, y, x + 512, y + 512)

\* collage.crop((x, y, x + 512, y + 512)) for slot i
CropSlot(collage, i) ==
    LET x == sub_texture_positions[i][1]
        y == sub_texture_positions[i][2]
    IN  ImageCrop(collage, x, y, x + 512, y + 512)

\* the folder after sub_texture.save(...) of the six crops
RECURSIVE SaveSubTextures(_, _, _)
SaveSubTextures(fs, collage, i) ==
    IF i > Len(sub_texture_order) THEN fs
    ELSE SaveSubTextures(Put(fs, PngName(sub_texture_order[i]), CropSlot(collage, i)),
                         collage, i + 1)

\* the first existing candidate of range(lo, hi), or 0 when the loop ends without a break
RECURSIVE FirstCandidate(_, _)
FirstCandidate(lo, hi) ==
    IF lo >= hi THEN 0
    ELSE IF Exists(CandidateName(lo)) THEN lo
    ELSE FirstCandidate(lo + 1, hi)

\* one UV Map node against the UV layers of obj (lines 510-515)
BindUVNode(node, uv_layers) ==
    IF node.type = "UVMAP" /\ Join(node.label) \in Range(uv_layers)
    THEN [node EXCEPT !.uv_map = Join(node.label)]
    ELSE node

\* one Image Texture node against the files of the folder (lines 520-529)
BindImageNode(node, fs) ==
    IF node.type = "TEX_IMAGE" /\ PngName(SlotName(LastPart(node.label))) \in DOMAIN fs
    THEN [node EXCEPT !.image = PngName(SlotName(LastPart(node.label)))]
    ELSE node

BindNodes_StopAtMismatch(nodes, uv_layers, fs) ==
    LET bound == [k \in DOMAIN nodes |-> BindImageNode(BindUVNode(nodes[k], uv_layers), fs)]
        bad == {k \in DOMAIN nodes : /\ nodes[k].type \in {"UVMAP", "TEX_IMAGE"}
                                     /\ bound[k] = nodes[k]}
    IN  [k \in DOMAIN nodes |-> IF \E j \in bad : j < k THEN nodes[k] ELSE bound[k]]

\* the node tree after the two loops over the nodes for one object (lines 507-529)
BindNodes(nodes, uv_layers, fs) ==
    [k \in DOMAIN nodes |-> BindImageNode(BindUVNode(nodes[k], uv_layers), fs)]

\* the warnings of one object: the UV Map nodes first, then the Image Texture nodes
BindWarnings(nodes, obj, uv_layers, fs) ==
    LET uvIdx == SelectSeq([k \in DOMAIN nodes |-> k],
                    LAMBDA k : nodes[k].type = "UVMAP"
                               /\ Join(nodes[k].label) \notin Range(uv_layers))
        imIdx == SelectSeq([k \in DOMAIN nodes |-> k],
                    LAMBDA k : nodes[k].type = "TEX_IMAGE"
                               /\ PngName(SlotName(LastPart(nodes[k].label))) \notin DOMAIN fs)
    IN  [j \in DOMAIN uvIdx |-> NodeReport("WARNING", "uv_map_missing", obj, nodes[uvIdx[j]].name)]
        \o [j \in DOMAIN imIdx |-> NodeReport("WARNING", "image_missing", obj, nodes[imIdx[j]].name)]

\* the loop over bpy.context.selected_objects (lines 498-529), from the k-th mesh on
RECURSIVE BindObjects(_, _, _)
BindObjects(st, fs, k) ==
    IF k > Len(SelectedMeshes) THEN st
    ELSE LET n == SelectedMeshes[k]
             uv == objects[n].uv_layers
         IN  BindObjects(
                 [nodes |-> BindNodes(st.nodes, uv, fs),
                  objs |-> [st.objs EXCEPT ![n].materials = <<"ApplyTextures">>],
                  reports |-> st.reports \o BindWarnings(st.nodes, n, uv, fs)],
                 fs, k + 1)

\* the material after bpy.data.materials.get / libraries.load (lines 458-473)
LoadedMaterial ==
    IF material.present THEN material
    ELSE IF blend_file.exists /\ blend_file.has_material
         THEN [nodes |-> blend_file.nodes, present |-> TRUE]
         ELSE material

Outcome_DropsSlots(result, reports, used, fs, objs, mat) ==
    [objects |-> objs, material |-> mat,
     files |-> IF result = "CANCELLED"
               THEN Restrict(fs, DOMAIN fs \ {PngName(sub_texture_order[i]) :
                                                  i \in DOMAIN sub_texture_order})
               ELSE fs,
     reports |-> reports, result |-> result, used |-> used]

\* what one call of the operator returns, reports and leaves behind
Outcome(result, reports, used, fs, objs, mat) ==
    [objects |-> objs, material |-> mat, files |-> fs, reports |-> reports, result |-> result,
     used |-> used]

\* ApplyTexturesOperator.execute with self.output_index = output_index, as a function
\* of the current state: the return value, the reports and what it leaves behind
ApplyTextures(output_index) ==
    LET found == IF output_index > 0
                 THEN (IF Exists(CandidateName(output_index)) THEN output_index ELSE 0)
                 ELSE FirstCandidate(1, CandidateEnd)
    IN  IF output_folder = ""
        THEN Outcome("CANCELLED", <<Report("WARNING", "no_output_folder")>>, "",
                     files, objects, material)
        ELSE IF output_index > 0 /\ found = 0
        THEN Outcome("CANCELLED", <<Report("WARNING", "candidate_missing")>>, "",
                     files, objects, material)
        ELSE IF found = 0
        \* collage_path was never assigned: `if not collage_path` raises UnboundLocalError
        THEN Outcome("EXCEPTION", <<Report("ERROR", "UnboundLocalError")>>, "",
                     files, objects, material)
        ELSE IF ~material.present /\ ~blend_file.exists
        THEN Outcome("CANCELLED", <<Report("WARNING", "blend_file_missing")>>,
                     CandidateName(found), files, objects, material)
        ELSE IF ~LoadedMaterial.present
        THEN Outcome("CANCELLED", <<Report("WARNING", "material_missing")>>,
                     CandidateName(found), files, objects, material)
        ELSE LET collage == files[CandidateName(found)]
                 fs == SaveSubTextures(files, collage, 1)
                 st == BindObjects([nodes |-> LoadedMaterial.nodes, objs |-> objects,
                                    reports |-> <<>>], fs, 1)
             IN  Outcome("FINISHED",
                         st.reports \o <<Report("INFO", "material_applied"),
                                         Report("INFO", "applied")>>,
                         CandidateName(found), fs, st.objs, [nodes |-> st.nodes, present |-> TRUE])

\* the inputs the panel button and scripts give to output_index
ApplyIndices == {0, 1, 2}

ApplyTexturesOperator_execute(output_index) ==
    /\ pc = "idle"
    /\ LET r == ApplyTextures(output_index)
       IN  /\ files' = r.files
           /\ objects' = r.objects
           /\ material' = r.material
           /\ last' = [reports |-> r.reports, result |-> r.result, used |-> r.used,
                       op |-> "apply_textures", arg |-> output_index, scan |-> "none",
                       applied |-> r.result]
    /\ UNCHANGED <<collection, resolution, blend_file, output_folder, current_output_index,
                   temp_files, printed, pc, render_queue, rendered_images, temp_path>>

(***************************************************************************)
(* NextTryOperator.execute                                                 *)
(***************************************************************************)
ForwardScan_SkipsFirst(index) == FirstCandidate(index + 1, CandidateEnd)

\* the first loop: for i in range(props.current_output_index, 11), after the += 1
ForwardScan(index) == FirstCandidate(index, CandidateEnd)

WrapScan_FromTwo(index) == FirstCandidate(2, index)

\* the second loop: for i in range(1, props.current_output_index), after the += 1
WrapScan(index) == FirstCandidate(1, index)

\* props.current_output_index when the operator returns, given its value before
NextIndex(before) ==
    LET index == before + 1
    IN  IF ForwardScan(index) # 0 THEN ForwardScan(index)
        ELSE IF WrapScan(index) # 0 THEN WrapScan(index)
        ELSE index

NextTryOperator_execute ==
    /\ pc = "idle"
    /\ current_output_index < MaxIndex
    /\ IF output_folder = ""
       THEN /\ last' = [reports |-> <<Report("WARNING", "no_output_folder")>>,
                        result |-> "CANCELLED", used |-> "", op |-> "next_try",
                        arg |-> current_output_index, scan |-> "none",
                        applied |-> "none"]
            /\ UNCHANGED <<current_output_index, files, objects, material>>
       ELSE LET index == current_output_index + 1
                scan == IF ForwardScan(index) # 0 THEN "forward"
                        ELSE IF WrapScan(index) # 0 THEN "wrap" ELSE "none"
                next == NextIndex(current_output_index)
            IN  /\ current_output_index' = next
                /\ IF scan = "none"
                   THEN /\ last' = [reports |-> <<Report("WARNING", "no_next_image")>>,
                                    result |-> "CANCELLED", used |-> "",
                                    op |-> "next_try", arg |-> current_output_index,
                                    scan |-> scan, applied |-> "none"]
                        /\ UNCHANGED <<files, objects, material>>
                   ELSE LET r == ApplyTextures(next)
                        IN  /\ files' = r.files
                            /\ objects' = r.objects
                            /\ material' = r.material
                            /\ last' = [reports |-> r.reports \o <<Report("INFO", "applied")>>,
                                        result |-> "FINISHED", used |-> r.used,
                                        op |-> "next_try", arg |-> current_output_index,
                                        scan |-> scan, applied |-> r.result]
    /\ UNCHANGED <<collection, resolution, blend_file, output_folder,
                   temp_files, printed, pc, render_queue, rendered_images, temp_path>>

(***************************************************************************)
(* The user and the outside world.                                         *)
(***************************************************************************)
Fin(n) == <<"fin", n>>

MeshObject(selected, visible, lo, hi, xf, materials, uv_layers) ==
    [selected |-> selected, type |-> "MESH", in_cams |-> FALSE, lo |-> lo,
     hi |-> hi, uv_layers |-> uv_layers, materials |-> materials, visible |-> visible, xf |-> xf,
     cam_type |-> "", ortho_scale |-> Fin(0), location |-> <<Fin(0), Fin(0), Fin(0)>>,
     rotation |-> <<0, 0, 0>>]

\* an atlas the image generator returned
GeneratedAtlas(id, w, h) == SourceImage(id, w, h)

Node(type, name, label) ==
    [name |-> name, type |-> type, label |-> label, uv_map |-> "", image |-> ""]

\* node trees MaterialFile.blend may hold for the material "ApplyTextures"
MatchingNodes ==
    <<Node("UVMAP", "UV Map", <<"UV", "Camera", "X">>),
      Node("TEX_IMAGE", "Image Texture", <<"T", "B", "X">>),
      Node("UVMAP", "UV Map.001", <<"UV", "Camera", "-Z">>),
      Node("TEX_IMAGE", "Image Texture.001", <<"T", "B", "-Z">>),
      Node("BSDF_PRINCIPLED", "Principled BSDF", <<>>)>>

MismatchedNodes ==
    <<Node("UVMAP", "UV Map", <<"UV", "Front">>),
      Node("TEX_IMAGE", "Image Texture", <<"T", "B", "W">>),
      Node("UVMAP", "UV Map.001", <<"UV", "Camera", "Y">>),
      Node("TEX_IMAGE", "Image Texture.001", <<"Tex", "Y">>)>>

SetMessage(what) ==
    [reports |-> <<>>, result |-> "none", used |-> "", op |-> "user",
     arg |-> what, scan |-> "none", applied |-> "none"]

\* the user saves a generated atlas as AIGC_OUTPUT_<i>.png in the folder
SaveCandidate(i, img) ==
    /\ pc = "idle"
    /\ ~Exists(CandidateName(i))
    /\ files' = Put(files, CandidateName(i), img)
    /\ last' = SetMessage("save_candidate")
    /\ UNCHANGED <<objects, collection, resolution, material, blend_file, output_folder,
                   current_output_index, temp_files, printed, pc, render_queue,
                   rendered_images, temp_path>>

\* the user deletes candidate i
DeleteCandidate(i) ==
    /\ pc = "idle"
    /\ Exists(CandidateName(i))
    /\ files' = Restrict(files, DOMAIN files \ {CandidateName(i)})
    /\ last' = SetMessage("delete_candidate")
    /\ UNCHANGED <<objects, collection, resolution, material, blend_file, output_folder,
                   current_output_index, temp_files, printed, pc, render_queue,
                   rendered_images, temp_path>>

(***************************************************************************)
(* Cycling through the candidates: the Next Try button over a folder whose *)
(* candidates come and go.                                                 *)
(***************************************************************************)
CycleObjects ==
    [n \in {"Cube"} |->
        MeshObject(TRUE, TRUE, <<-20, -20, -20>>, <<20, 20, 20>>, "identity", <<>>,
                   <<"UV_Camera_X", "UV_Camera_-Z">>)]

InitCycle ==
    /\ objects = CycleObjects
    /\ collection = "absent"
    /\ resolution = <<1920, 1080>>
    /\ material = [nodes |-> <<>>, present |-> FALSE]
    /\ blend_file = [nodes |-> MatchingNodes, exists |-> TRUE, has_material |-> TRUE]
    /\ output_folder \in {"", "assets"}
    /\ current_output_index = 0
    /\ files = [f \in {} |-> ImageNew(0, 0)]
    /\ temp_files = {}
    /\ printed = {}
    /\ pc = "idle"
    /\ render_queue = <<>>
    /\ rendered_images = [f \in {} |-> ImageNew(0, 0)]
    /\ temp_path = 0
    /\ last = SetMessage("start")

NextCycle ==
    \/ NextTryOperator_execute
    \/ \E i \in 1 .. (CandidateEnd - 1) : SaveCandidate(i, GeneratedAtlas("generated", 3 * CellSize, 2 * CellSize))
    \/ \E i \in 1 .. (CandidateEnd - 1) : DeleteCandidate(i)

SpecCycle == InitCycle /\ [][NextCycle]_vars

(***************************************************************************)
(* Floats with infinities: float('inf'), float('-inf') and nan.            *)
(***************************************************************************)
PInf == <<"inf", 1>>

NInf == <<"inf", -1>>

NaN == <<"nan", 0>>

IsFin(a) == a[1] = "fin"

XLevel(a) == IF a[1] = "inf" THEN a[2] ELSE 0

\* a < b; every comparison with nan is false
XLt(a, b) ==
    /\ a # NaN
    /\ b # NaN
    /\ \/ XLevel(a) < XLevel(b)
       \/ IsFin(a) /\ IsFin(b) /\ a[2] < b[2]

\* Python's min(a, b) and max(a, b): b only when it is strictly smaller / greater
XMin(a, b) == IF XLt(b, a) THEN b ELSE a

XMax(a, b) == IF XLt(a, b) THEN b ELSE a

XNeg(a) == IF a = NaN THEN NaN ELSE IF IsFin(a) THEN Fin(-a[2]) ELSE <<"inf", -a[2]>>

XAdd(a, b) ==
    IF a = NaN \/ b = NaN THEN NaN
    ELSE IF IsFin(a) /\ IsFin(b) THEN Fin(a[2] + b[2])
    ELSE IF IsFin(a) THEN b
    ELSE IF IsFin(b) THEN a
    ELSE IF a = b THEN a ELSE NaN

XSub(a, b) == XAdd(a, XNeg(b))

\* a / 2 (coordinates are even, the quotient is exact)
XHalf(a) == IF IsFin(a) THEN Fin(a[2] \div 2) ELSE a

\* a * 1.1 (coordinates are multiples of ten, the product is exact)
XTimes11Tenths(a) == IF IsFin(a) THEN Fin((a[2] * 11) \div 10) ELSE a

\* max(v) of a Vector
XMax3(v) == XMax(XMax(v[1], v[2]), v[3])

(***************************************************************************)
(* get_scene_bounding_box                                                  *)
(***************************************************************************)
\* the world matrices the scenes use: rows of the 3x3 part and the translation
MatrixRows(xf) ==
    CASE xf = "identity" -> <<<<1, 0, 0>>, <<0, 1, 0>>, <<0, 0, 1>>>>
      [] xf = "moved" -> <<<<1, 0, 0>>, <<0, 1, 0>>, <<0, 0, 1>>>>
      [] xf = "turned" -> <<<<0, -1, 0>>, <<1, 0, 0>>, <<0, 0, 3>>>>
      [] xf = "mirrored" -> <<<<-1, 0, 0>>, <<0, 1, 0>>, <<0, 0, 1>>>>

MatrixOffset(xf) ==
    CASE xf = "identity" -> <<0, 0, 0>>
      [] xf = "moved" -> <<60, -40, 20>>
      [] xf = "turned" -> <<0, 0, -100>>
      [] xf = "mirrored" -> <<-20, 0, 40>>

\* obj.bound_box: the eight corners of the local box, in Blender's order
bound_box(o) ==
    <<<<o.lo[1], o.lo[2], o.lo[3]>>, <<o.lo[1], o.lo[2], o.hi[3]>>,
      <<o.lo[1], o.hi[2], o.hi[3]>>, <<o.lo[1], o.hi[2], o.lo[3]>>,
      <<o.hi[1], o.lo[2], o.lo[3]>>, <<o.hi[1], o.lo[2], o.hi[3]>>,
      <<o.hi[1], o.hi[2], o.hi[3]>>, <<o.hi[1], o.hi[2], o.lo[3]>>>>

\* obj.matrix_world @ Vector(coord)
MatrixRow(xf, i, coord) ==
    MatrixRows(xf)[i][1] * coord[1] + MatrixRows(xf)[i][2] * coord[2]
    + MatrixRows(xf)[i][3] * coord[3] + MatrixOffset(xf)[i]

WorldCoord(o, coord) ==
    <<MatrixRow(o.xf, 1, coord), MatrixRow(o.xf, 2, coord), MatrixRow(o.xf, 3, coord)>>

\* the objects the loop takes: bpy.context.visible_objects with obj.type == 'MESH'
IsBounded(o) == o.visible /\ o.type = "MESH"

VisibleMeshes == ObjectsWhere({n \in DOMAIN objects : IsBounded(objects[n])})

UpdateBox_CornerWise(box, w) ==
    [min |-> IF \A i \in 1 .. 3 : XLt(Fin(w[i]), box.min[i])
             THEN <<Fin(w[1]), Fin(w[2]), Fin(w[3])>> ELSE box.min,
     max |-> IF \A i \in 1 .. 3 : XLt(box.max[i], Fin(w[i]))
             THEN <<Fin(w[1]), Fin(w[2]), Fin(w[3])>> ELSE box.max]

\* lines 32-33: each axis of the running minimum and maximum on its own
UpdateBox(box, w) ==
    [min |-> <<XMin(box.min[1], Fin(w[1])), XMin(box.min[2], Fin(w[2])),
               XMin(box.min[3], Fin(w[3]))>>,
     max |-> <<XMax(box.max[1], Fin(w[1])), XMax(box.max[2], Fin(w[2])),
               XMax(box.max[3], Fin(w[3]))>>]

\* the two loops, from corner c of the k-th visible mesh on
RECURSIVE AccumulateBox(_, _, _)
AccumulateBox(box, k, c) ==
    IF k > Len(VisibleMeshes) THEN box
    ELSE IF c > 8 THEN AccumulateBox(box, k + 1, 1)
    ELSE LET o == objects[VisibleMeshes[k]]
         IN  AccumulateBox(UpdateBox(box, WorldCoord(o, bound_box(o)[c])), k, c + 1)

get_scene_bounding_box ==
    AccumulateBox([min |-> <<PInf, PInf, PInf>>, max |-> <<NInf, NInf, NInf>>], 1, 1)

(***************************************************************************)
(* GenerateCamerasOperator                                                 *)
(***************************************************************************)
\* lines 38-45
has_uncleared_materials_or_uvs ==
    \E k \in DOMAIN SelectedMeshes :
        \/ Len(objects[SelectedMeshes[k]].materials) > 0
        \/ Len(objects[SelectedMeshes[k]].uv_layers) > 0

\* lines 66-72
check_existing_cameras == collection # "absent" /\ Len(CollectionCameras) = 6

max_dimension_OfX(box) == XSub(box.max[1], box.min[1])

\* lines 85-86: max(max_coords - min_coords)
max_dimension(box) ==
    XMax3(<<XSub(box.max[1], box.min[1]), XSub(box.max[2], box.min[2]),
            XSub(box.max[3], box.min[3])>>)

\* line 84
distances(box) == XAdd(XMax3(box.max), Fin(Margin))

\* line 87
z_center(box) == XHalf(XAdd(box.max[3], box.min[3]))

\* lines 89-96: direction, location, rotation (in degrees)
directions(box) ==
    <<<<"X", <<distances(box), Fin(0), z_center(box)>>, <<-90, 180, -90>>>>,
      <<"Y", <<Fin(0), distances(box), z_center(box)>>, <<-90, 180, 0>>>>,
      <<"Z", <<Fin(0), Fin(0), distances(box)>>, <<0, 0, 0>>>>,
      <<"-X", <<XNeg(distances(box)), Fin(0), z_center(box)>>, <<-90, -180, 90>>>>,
      <<"-Y", <<Fin(0), XNeg(distances(box)), z_center(box)>>, <<90, 0, 0>>>>,
      <<"-Z", <<Fin(0), Fin(0), XNeg(distances(box))>>, <<180, 0, 0>>>>>>

\* the name Blender gives a data-block asking for `name`: unique among `taken`
UniqueName(name, taken) ==
    IF name \notin taken THEN name
    ELSE IF name \o ".001" \notin taken THEN name \o ".001"
    ELSE name \o ".002"

\* lines 114-119: the camera object made for one entry of directions
CameraObject(location, rotation, ortho_scale) ==
    [selected |-> FALSE, type |-> "CAMERA", in_cams |-> TRUE, lo |-> <<0, 0, 0>>,
     hi |-> <<0, 0, 0>>, uv_layers |-> <<>>, materials |-> <<>>, visible |-> TRUE,
     xf |-> "identity", cam_type |-> "ORTHO", ortho_scale |-> ortho_scale,
     location |-> location, rotation |-> rotation]

RemoveStaleCameras_KeepAll(objs) == objs

\* lines 98-101: every object named Camera_<dir> is removed
RemoveStaleCameras(objs) ==
    Restrict(objs, DOMAIN objs \ {CameraName(Directions[i]) : i \in DOMAIN Directions})

\* lines 113-119, from the k-th direction on
RECURSIVE AddCameras(_, _, _)
AddCameras(objs, box, k) ==
    IF k > Len(directions(box)) THEN objs
    ELSE LET d == directions(box)[k]
             name == UniqueName(CameraName(d[1]), DOMAIN objs)
         IN  AddCameras(Put(objs, name,
                            CameraObject(d[2], d[3], XTimes11Tenths(max_dimension(box)))),
                        box, k + 1)

OperatorMessage(op, result, reports) ==
    [reports |-> reports, result |-> result, used |-> "", op |-> op,
     arg |-> 0, scan |-> "none", applied |-> "none"]

GenerateCamerasOperator_execute ==
    /\ pc = "idle"
    /\ IF check_existing_cameras
       THEN /\ last' = OperatorMessage("generate_cameras", "CANCELLED",
                                       <<Report("WARNING", "cameras_exist")>>)
            /\ UNCHANGED <<objects, collection, resolution>>
       ELSE IF has_uncleared_materials_or_uvs
       THEN /\ last' = OperatorMessage("generate_cameras", "CANCELLED",
                                       <<Report("WARNING", "uncleared_materials_or_uvs")>>)
            /\ UNCHANGED <<objects, collection, resolution>>
       ELSE IF collection = "unlinked"
       \* get_layer_collection returns None and the view layer refuses None as its
       \* active layer collection: the operator stops after the removal loop
       THEN /\ objects' = RemoveStaleCameras(objects)
            /\ last' = OperatorMessage("generate_cameras", "EXCEPTION",
                                       <<Report("ERROR", "TypeError")>>)
            /\ UNCHANGED <<collection, resolution>>
       ELSE /\ objects' = AddCameras(RemoveStaleCameras(objects), get_scene_bounding_box, 1)
            /\ collection' = "linked"
            /\ resolution' = <<512, 512>>
            /\ last' = OperatorMessage("generate_cameras", "FINISHED",
                                       <<Report("INFO", "cameras_created")>>)
    /\ UNCHANGED <<material, blend_file, output_folder, current_output_index, files,
                   temp_files, printed, pc, render_queue, rendered_images, temp_path>>

(***************************************************************************)
(* ClearMaterialsUVOperator                                                *)
(***************************************************************************)
ClearMaterialsUVOperator_execute ==
    /\ pc = "idle"
    /\ objects' =
         [n \in {m \in DOMAIN objects : objects[m].type # "LIGHT"} |->
            IF objects[n].selected /\ objects[n].type = "MESH"
            THEN [objects[n] EXCEPT !.materials = <<>>, !.uv_layers = <<>>]
            ELSE objects[n]]
    /\ last' = OperatorMessage("clear_materials_uv", "FINISHED", <<Report("INFO", "cleared")>>)
    /\ UNCHANGED <<collection, resolution, material, blend_file, output_folder,
                   current_output_index, files, temp_files, printed, pc, render_queue,
                   rendered_images, temp_path>>

(***************************************************************************)
(* CameraProjectionOperator                                                *)
(***************************************************************************)
\* lines 343-363: one UV map per camera of the collection on the active object,
\* from the k-th camera on; uv_layers.new raises once the mesh holds eight UV maps
RECURSIVE ProjectCameras(_, _)
ProjectCameras(st, k) ==
    IF k > Len(CollectionCameras) \/ st.result = "EXCEPTION" THEN st
    ELSE IF Len(st.uv_layers) >= MaxUVLayers
    THEN [st EXCEPT !.result = "EXCEPTION"]
    ELSE ProjectCameras(
             [st EXCEPT !.uv_layers =
                 Append(@, UniqueName("UV_" \o CollectionCameras[k], Range(@)))],
             k + 1)

CameraProjectionOperator_invoke(active_object) ==
    /\ pc = "idle"
    /\ IF \/ Len(SelectedMeshes) = 0
          \/ collection = "absent"
          \/ Len(CollectionCameras) # 6
       THEN /\ last' = OperatorMessage("camera_projection", "CANCELLED",
                                       <<Report("WARNING", "select_model_or_create_cameras")>>)
            /\ UNCHANGED objects
       ELSE LET st == ProjectCameras([uv_layers |-> objects[active_object].uv_layers,
                                      result |-> "FINISHED"], 1)
            IN  /\ objects' = [objects EXCEPT ![active_object].uv_layers = st.uv_layers]
                /\ last' = OperatorMessage("camera_projection", st.result,
                              IF st.result = "FINISHED"
                              THEN <<Report("INFO", "projected")>>
                              ELSE <<Report("ERROR", "RuntimeError")>>)
    /\ UNCHANGED <<collection, resolution, material, blend_file, output_folder,
                   current_output_index, files, temp_files, printed, pc, render_queue,
                   rendered_images, temp_path>>

(***************************************************************************)
(* RENDERSETTINGS_OT_render_image                                          *)
(***************************************************************************)
image_order == <<"Camera_X", "Camera_Y", "Camera_Z", "Camera_-X", "Camera_-Y", "Camera_-Z">>

CollagePosition_TwoColumns(i) == <<(i % 2) * 512, (i \div 2) * 512>>

\* lines 266-267: the cell origin of entry i of enumerate(image_order)
CollagePosition(i) == <<(i % 3) * 512, (i \div 3) * 512>>

\* lines 262-269, from the k-th name of image_order on (enumerate counts from 0)
RECURSIVE PasteImages(_, _, _)
PasteImages(collage, images, k) ==
    IF k > Len(image_order) THEN collage
    ELSE IF image_order[k] \in DOMAIN images
    THEN PasteImages(ImagePaste(collage, images[image_order[k]],
                                CollagePosition(k - 1)[1], CollagePosition(k - 1)[2]),
                     images, k + 1)
    ELSE PasteImages(collage, images, k + 1)

\* the image create_collage saves as collage.png
create_collage(images) == PasteImages(ImageNew(512 * 3, 512 * 2), images, 1)

\* bpy.data.images['Render Result'] after rendering through camera `name`
RenderResult(name) == SourceImage(name, resolution[1], resolution[2])

\* a name tempfile.NamedTemporaryFile has not handed out yet
FreshTemp == CHOOSE t \in 1 .. (Cardinality(temp_files) + 1) : t \notin temp_files

AfterUnlink_Forgotten(fs, path) == fs

\* os.unlink(temp_path) when it does not raise
AfterUnlink(fs, path) == fs \ {path}

RenderMessage(result, reports) ==
    [reports |-> reports, result |-> result, used |-> "", op |-> "render",
     arg |-> 0, scan |-> "none", applied |-> "none"]

\* lines 186-223: up to the loop over the cameras of the collection
RenderBegin ==
    /\ pc = "idle"
    /\ IF output_folder = ""
       THEN /\ last' = RenderMessage("CANCELLED", <<Report("WARNING", "no_output_folder")>>)
            /\ UNCHANGED <<pc, render_queue, rendered_images>>
       ELSE /\ pc' = "render"
            /\ render_queue' = IF collection = "absent" THEN <<>> ELSE CollectionCameras
            /\ rendered_images' = [n \in {} |-> ImageNew(0, 0)]
            /\ last' = RenderMessage("RUNNING", <<>>)
    /\ UNCHANGED <<objects, collection, resolution, material, blend_file, output_folder,
                   current_output_index, files, temp_files, printed, temp_path>>

\* lines 224-241: render one camera, write the temporary PNG, read it back
RenderCamera ==
    /\ pc = "render"
    /\ render_queue # <<>>
    /\ temp_path' = FreshTemp
    /\ temp_files' = temp_files \cup {FreshTemp}
    /\ rendered_images' = Put(rendered_images, Head(render_queue),
                               RenderResult(Head(render_queue)))
    /\ pc' = "unlink"
    /\ UNCHANGED <<objects, collection, resolution, material, blend_file, output_folder,
                   current_output_index, files, printed, render_queue, last>>

\* lines 244-245: the temporary file is deleted
UnlinkTemp ==
    /\ pc = "unlink"
    /\ temp_files' = AfterUnlink(temp_files, temp_path)
    /\ render_queue' = Tail(render_queue)
    /\ pc' = "render"
    /\ UNCHANGED <<objects, collection, resolution, material, blend_file, output_folder,
                   current_output_index, files, printed, rendered_images, temp_path, last>>

\* lines 246-247: os.unlink raises PermissionError; the message is printed and the
\* loop goes on
UnlinkPermissionError ==
    /\ pc = "unlink"
    /\ Cardinality(printed) < MaxFailedUnlinks
    /\ printed' = printed \cup {temp_path}
    /\ render_queue' = Tail(render_queue)
    /\ pc' = "render"
    /\ UNCHANGED <<objects, collection, resolution, material, blend_file, output_folder,
                   current_output_index, files, temp_files, rendered_images, temp_path, last>>

\* lines 249-253: the loop is over, the collage is written
RenderFinish ==
    /\ pc = "render"
    /\ render_queue = <<>>
    /\ files' = Put(files, "collage.png", create_collage(rendered_images))
    /\ pc' = "idle"
    /\ last' = RenderMessage("FINISHED", <<>>)
    /\ UNCHANGED <<objects, collection, resolution, material, blend_file, output_folder,
                   current_output_index, temp_files, printed, render_queue,
                   rendered_images, temp_path>>

(***************************************************************************)
(* Generating the rig: scenes with and without meshes, with the remains of *)
(* earlier rigs, edited by the user between two runs of the operators.     *)
(***************************************************************************)
LightObject ==
    [selected |-> FALSE, type |-> "LIGHT", in_cams |-> FALSE, lo |-> <<0, 0, 0>>,
     hi |-> <<0, 0, 0>>, uv_layers |-> <<>>, materials |-> <<>>, visible |-> TRUE,
     xf |-> "moved", cam_type |-> "", ortho_scale |-> Fin(0),
     location |-> <<Fin(0), Fin(0), Fin(0)>>, rotation |-> <<0, 0, 0>>]

\* a camera the user (or an earlier run on another model) left behind
StaleCamera(in_cams) ==
    [CameraObject(<<Fin(80), Fin(0), Fin(0)>>, <<0, 0, 0>>, Fin(66))
        EXCEPT !.in_cams = in_cams, !.cam_type = "PERSP"]

Cube(materials) ==
    MeshObject(TRUE, TRUE, <<-20, -20, -20>>, <<20, 20, 20>>, "identity", materials, <<>>)

Plane == MeshObject(FALSE, TRUE, <<-60, -40, 0>>, <<60, 40, 0>>, "mirrored", <<>>, <<>>)

Named(names, o) == [n \in names |-> o]

SceneMeshes(materials) ==
    { Named({"Light"}, LightObject),
      Named({"Cube"}, Cube(materials)),
      [n \in {"Cube", "Plane", "Light"} |->
          IF n = "Cube" THEN Cube(materials) ELSE IF n = "Plane" THEN Plane ELSE LightObject] }

RigNames == {CameraName(Directions[i]) : i \in DOMAIN Directions}

\* what earlier work left of the "Orthogonal Cameras" collection
PriorRigs ==
    { [collection |-> "absent", cameras |-> Named({}, StaleCamera(TRUE))],
      [collection |-> "linked", cameras |-> Named({}, StaleCamera(TRUE))],
      [collection |-> "linked", cameras |-> Named({"Camera_X", "Camera_Y"}, StaleCamera(TRUE))],
      [collection |-> "linked", cameras |-> Named(RigNames, StaleCamera(TRUE))],
      [collection |-> "linked",
       cameras |-> Named({"Camera", "Camera.001", "Camera_Y"}, StaleCamera(TRUE))],
      [collection |-> "linked",
       cameras |-> Named({"Camera", "Camera.001", "Camera_X", "Camera_Y", "Camera_Z",
                          "Camera_-X"}, StaleCamera(TRUE))],
      [collection |-> "absent", cameras |-> Named({"Camera_Z"}, StaleCamera(FALSE))],
      [collection |-> "unlinked", cameras |-> Named({"Camera_X"}, StaleCamera(TRUE))] }

InitRig ==
    /\ \E materials \in {<<>>, <<"Material">>} :
       \E meshes \in SceneMeshes(materials) :
       \E prior \in PriorRigs :
          /\ objects = [n \in DOMAIN meshes \cup DOMAIN prior.cameras |->
                           IF n \in DOMAIN meshes THEN meshes[n] ELSE prior.cameras[n]]
          /\ collection = prior.collection
    /\ resolution = <<1920, 1080>>
    /\ material = [nodes |-> <<>>, present |-> FALSE]
    /\ blend_file = [nodes |-> MatchingNodes, exists |-> TRUE, has_material |-> TRUE]
    /\ output_folder = ""
    /\ current_output_index = 0
    /\ files = [f \in {} |-> ImageNew(0, 0)]
    /\ temp_files = {}
    /\ printed = {}
    /\ pc = "idle"
    /\ render_queue = <<>>
    /\ rendered_images = [f \in {} |-> ImageNew(0, 0)]
    /\ temp_path = 0
    /\ last = SetMessage("start")

\* the user moves a mesh
SetWorldMatrix(n, xf) ==
    /\ pc = "idle"
    /\ n \in DOMAIN objects
    /\ objects[n].type = "MESH"
    /\ objects[n].xf # xf
    /\ objects' = [objects EXCEPT ![n].xf = xf]
    /\ last' = SetMessage("set_world_matrix")
    /\ UNCHANGED <<collection, resolution, material, blend_file, output_folder,
                   current_output_index, files, temp_files, printed, pc, render_queue,
                   rendered_images, temp_path>>

\* the user hides or shows an object
SetVisible(n, visible) ==
    /\ pc = "idle"
    /\ n \in DOMAIN objects
    /\ objects[n].visible # visible
    /\ objects' = [objects EXCEPT ![n].visible = visible]
    /\ last' = SetMessage("set_visible")
    /\ UNCHANGED <<collection, resolution, material, blend_file, output_folder,
                   current_output_index, files, temp_files, printed, pc, render_queue,
                   rendered_images, temp_path>>

\* the user deletes an object
DeleteObject(n) ==
    /\ pc = "idle"
    /\ n \in DOMAIN objects
    /\ objects' = Restrict(objects, DOMAIN objects \ {n})
    /\ last' = SetMessage("delete_object")
    /\ UNCHANGED <<collection, resolution, material, blend_file, output_folder,
                   current_output_index, files, temp_files, printed, pc, render_queue,
                   rendered_images, temp_path>>

NextRig ==
    \/ GenerateCamerasOperator_execute
    \/ ClearMaterialsUVOperator_execute
    \/ \E a \in {"Cube"} : a \in Range(SelectedMeshes) /\ CameraProjectionOperator_invoke(a)
    \/ \E xf \in {"identity", "moved", "turned"} : SetWorldMatrix("Cube", xf)
    \/ \E b \in BOOLEAN : SetVisible("Plane", b)
    \/ \E n \in {"Camera_X", "Camera"} : DeleteObject(n)

SpecRig == InitRig /\ [][NextRig]_vars

(***************************************************************************)
(* Rendering and texturing: the cameras of the collection are rendered     *)
(* into collage.png, candidates appear in the folder (a copy of the        *)
(* collage, or an atlas of the right or of a wrong size), and are applied. *)
(***************************************************************************)
\* the cameras the collection may hold when the render button is pressed
RenderedCameraSets ==
    { {}, RigNames, {"Camera_X"}, {"Camera_-Z"}, {"Camera_Y", "Camera_-Y"},
      {"Camera_X", "Camera_Y", "Camera_Z", "Camera_-X"},
      RigNames \cup {"Camera"} }

InitAtlas ==
    /\ \E names \in RenderedCameraSets :
          /\ objects = [n \in names \cup {"Cube"} |->
                           IF n = "Cube" THEN CycleObjects["Cube"]
                           ELSE CameraObject(<<Fin(0), Fin(0), Fin(40)>>, <<0, 0, 0>>, Fin(44))]
          /\ collection = IF names = {} THEN "absent" ELSE "linked"
    /\ resolution \in {<<512, 512>>, <<1920, 1080>>}
    /\ material = [nodes |-> <<>>, present |-> FALSE]
    /\ blend_file \in {[nodes |-> MismatchedNodes, exists |-> TRUE, has_material |-> TRUE],
                       [nodes |-> <<>>, exists |-> FALSE, has_material |-> FALSE]}
    /\ output_folder = "assets"
    /\ current_output_index = 0
    /\ files = [f \in {} |-> ImageNew(0, 0)]
    /\ temp_files = {}
    /\ printed = {}
    /\ pc = "idle"
    /\ render_queue = <<>>
    /\ rendered_images = [f \in {} |-> ImageNew(0, 0)]
    /\ temp_path = 0
    /\ last = SetMessage("start")

\* the user hands collage.png back unchanged as candidate i
CopyCollage(i) ==
    /\ "collage.png" \in DOMAIN files
    /\ SaveCandidate(i, files["collage.png"])

NextAtlas ==
    \/ RenderBegin
    \/ RenderCamera
    \/ UnlinkTemp
    \/ UnlinkPermissionError
    \/ RenderFinish
    \/ CopyCollage(1)
    \/ SaveCandidate(1, GeneratedAtlas("generated", 1000, 1000))
    \/ SaveCandidate(1, GeneratedAtlas("generated", 3 * CellSize, 2 * CellSize))
    \/ DeleteCandidate(1)
    \/ \E output_index \in ApplyIndices : ApplyTexturesOperator_execute(output_index)

SpecAtlas == InitAtlas /\ [][NextAtlas]_vars

(***************************************************************************)
(* Binding: candidates are applied, from the panel or by Next Try, to      *)
(* selections whose UV layers match the labels of the material's nodes     *)
(* fully, partly or not at all.                                            *)
(***************************************************************************)
\* a node tree whose first UV Map node and first Image Texture node match nothing
MixedNodes ==
    <<Node("UVMAP", "UV Map", <<"UV", "Front">>),
      Node("UVMAP", "UV Map.001", <<"UV", "Camera", "X">>),
      Node("TEX_IMAGE", "Image Texture", <<"T", "B", "W">>),
      Node("TEX_IMAGE", "Image Texture.001", <<"T", "B", "X">>),
      Node("UVMAP", "UV Map.002", <<"UV", "Camera", "Y">>),
      Node("TEX_IMAGE", "Image Texture.002", <<"Tex", "-Y">>)>>

\* a projected cube, a plane with one UV map of its own, and a light
BindObjectsOfScene(plane_selected) ==
    [n \in {"Cube", "Plane", "Light"} |->
        IF n = "Cube" THEN CycleObjects["Cube"]
        ELSE IF n = "Plane"
        THEN MeshObject(plane_selected, TRUE, <<-60, -40, 0>>, <<60, 40, 0>>, "identity",
                        <<"Material">>, <<"UV_Camera_Y">>)
        ELSE [LightObject EXCEPT !.selected = TRUE]]

InitBind ==
    /\ \E plane_selected \in BOOLEAN : objects = BindObjectsOfScene(plane_selected)
    /\ collection = "absent"
    /\ resolution = <<512, 512>>
    /\ material = [nodes |-> <<>>, present |-> FALSE]
    /\ blend_file \in {[nodes |-> MatchingNodes, exists |-> TRUE, has_material |-> TRUE],
                       [nodes |-> MixedNodes, exists |-> TRUE, has_material |-> TRUE],
                       [nodes |-> <<>>, exists |-> TRUE, has_material |-> FALSE]}
    /\ output_folder = ""
    /\ current_output_index = 0
    /\ files = [f \in {} |-> ImageNew(0, 0)]
    /\ temp_files = {}
    /\ printed = {}
    /\ pc = "idle"
    /\ render_queue = <<>>
    /\ rendered_images = [f \in {} |-> ImageNew(0, 0)]
    /\ temp_path = 0
    /\ last = SetMessage("start")

\* the user selects or deselects an object
SetSelected(n, selected) ==
    /\ pc = "idle"
    /\ n \in DOMAIN objects
    /\ objects[n].selected # selected
    /\ objects' = [objects EXCEPT ![n].selected = selected]
    /\ last' = SetMessage("set_selected")
    /\ UNCHANGED <<collection, resolution, material, blend_file, output_folder,
                   current_output_index, files, temp_files, printed, pc, render_queue,
                   rendered_images, temp_path>>

\* the user fills in or empties the AssetsFolder field of the panel
SetOutputFolder(folder) ==
    /\ pc = "idle"
    /\ output_folder # folder
    /\ output_folder' = folder
    /\ last' = SetMessage("set_output_folder")
    /\ UNCHANGED <<objects, collection, resolution, material, blend_file,
                   current_output_index, files, temp_files, printed, pc, render_queue,
                   rendered_images, temp_path>>

\* the user puts a texture of their own into the folder
SaveTexture(name) ==
    /\ pc = "idle"
    /\ output_folder # ""
    /\ ~Exists(name)
    /\ files' = Put(files, name, SourceImage("painted", 512, 512))
    /\ last' = SetMessage("save_texture")
    /\ UNCHANGED <<objects, collection, resolution, material, blend_file, output_folder,
                   current_output_index, temp_files, printed, pc, render_queue,
                   rendered_images, temp_path>>

\* the candidates that come and go in this folder
BindCandidates == {1, 2}

NextBind ==
    \/ \E output_index \in ApplyIndices : ApplyTexturesOperator_execute(output_index)
    \/ NextTryOperator_execute
    \/ \E i \in BindCandidates :
          SaveCandidate(i, GeneratedAtlas("generated", 3 * CellSize, 2 * CellSize))
    \/ \E i \in BindCandidates : DeleteCandidate(i)
    \/ \E b \in BOOLEAN : SetSelected("Cube", b)
    \/ \E folder \in {"", "assets"} : SetOutputFolder(folder)
    \/ SaveTexture("T_B_W.png")

SpecBind == InitBind /\ [][NextBind]_vars

(***************************************************************************)
(* Repeated cycling: the folder holds a fixed, non-empty set of candidates *)
(* and the user keeps pressing Next Try.  The operator's loops are bounded *)
(* (range(.., 11), range(1, ..)), so every press returns; that the user    *)
(* presses again and again is the fairness condition.                      *)
(***************************************************************************)
\* the non-empty sets of candidate indices a folder may hold
CandidateSets == (SUBSET (1 .. (CandidateEnd - 1))) \ {{}}

\* the folders made of the first, the second and the last candidate
EdgeSets == (SUBSET {1, 2, CandidateEnd - 1}) \ {{}}

\* the scenes Next Try is pressed in: the projected cube selected, or nothing selected
RepeatScenes(F) ==
    IF F \in EdgeSets
    THEN {CycleObjects, [CycleObjects EXCEPT !["Cube"].selected = FALSE]}
    ELSE {[CycleObjects EXCEPT !["Cube"].selected = FALSE]}

InitRepeat ==
    /\ collection = "absent"
    /\ resolution = <<512, 512>>
    /\ material = [nodes |-> <<>>, present |-> FALSE]
    /\ blend_file = [nodes |-> MatchingNodes, exists |-> TRUE, has_material |-> TRUE]
    /\ output_folder = "assets"
    /\ current_output_index = 0
    /\ \E F \in CandidateSets :
          /\ objects \in RepeatScenes(F)
          /\ files = [name \in {CandidateName(i) : i \in F} |->
                         GeneratedAtlas("generated", 3 * CellSize, 2 * CellSize)]
    /\ temp_files = {}
    /\ printed = {}
    /\ pc = "idle"
    /\ render_queue = <<>>
    /\ rendered_images = [f \in {} |-> ImageNew(0, 0)]
    /\ temp_path = 0
    /\ last = SetMessage("start")

NextRepeat == NextTryOperator_execute

SpecRepeat == InitRepeat /\ [][NextRepeat]_vars /\ WF_vars(NextTryOperator_execute)

(***************************************************************************)
(* The whole add-on: every operator and every act of the user, from any of *)
(* the starting points above.                                              *)
(***************************************************************************)
Init == InitCycle \/ InitRig \/ InitAtlas \/ InitBind \/ InitRepeat

Next == NextCycle \/ NextRig \/ NextAtlas \/ NextBind \/ NextRepeat

Spec == Init /\ [][Next]_vars

(***************************************************************************)
(* Properties.                                                             *)
(***************************************************************************)
SetMin(S) == CHOOSE m \in S : \A x \in S : m <= x

\* the indices in 1..10 whose AIGC_OUTPUT_NN.png exists
ExistingCandidates == {i \in 1 .. 10 : Exists(CandidateName(i))}

\* a step of the Next Try button with the output folder set
NextTryStep == last'.op = "next_try" /\ output_folder # ""

\* C1: an advance that finds no candidate at any index other than the current one
\* reports not-found (CANCELLED, nothing applied) and leaves current_output_index
\* as it was before the call.
C1_FailedAdvanceKeepsIndex ==
    [][(NextTryStep /\ ExistingCandidates \ {current_output_index} = {})
        => /\ last'.result = "CANCELLED"
           /\ last'.applied = "none"
           /\ current_output_index' = current_output_index]_vars

\* C2: from an index in 0..10 the advance selects the smallest existing candidate
\* above the index, else the smallest existing candidate below it, and reports found.
C2_AdvanceSelectsNextExisting ==
    [][(NextTryStep /\ current_output_index \in 0 .. 10)
        => LET above == {i \in ExistingCandidates : i > current_output_index}
               below == {i \in ExistingCandidates : i < current_output_index}
           IN  /\ above # {}
                    => /\ current_output_index' = SetMin(above)
                       /\ last'.result = "FINISHED"
               /\ (above = {} /\ below # {})
                    => /\ current_output_index' = SetMin(below)
                       /\ last'.result = "FINISHED"]_vars

\* C2 witness: from index 9 with candidates {2, 5} the advance wrapped around to 2
C2_Witness ==
    /\ last.op = "next_try"
    /\ last.arg = 9
    /\ last.scan = "wrap"
    /\ ExistingCandidates = {2, 5}
    /\ current_output_index = 2

SetMax(S) == CHOOSE m \in S : \A x \in S : m >= x

\* the cameras of the "Orthogonal Cameras" collection among objs
CamerasIn(objs) == {n \in DOMAIN objs : objs[n].in_cams /\ objs[n].type = "CAMERA"}

\* a step of the Generate Cameras button
GenerateStep == last'.op = "generate_cameras"

\* objs holds, for every direction, the camera planned from box
HasFreshRig(objs, box) ==
    \A k \in DOMAIN Directions :
        /\ CameraName(Directions[k]) \in DOMAIN objs
        /\ objs[CameraName(Directions[k])] =
              CameraObject(directions(box)[k][2], directions(box)[k][3],
                           XTimes11Tenths(max_dimension(box)))

C6_EmptySceneIsRejected ==
    [][(GenerateStep /\ \A n \in DOMAIN objects :
                            ~(objects[n].type = "MESH" /\ objects[n].visible))
        => /\ get_scene_bounding_box =
                 [min |-> <<PInf, PInf, PInf>>, max |-> <<NInf, NInf, NInf>>]
           /\ last'.result # "FINISHED"
           /\ DOMAIN objects' \subseteq DOMAIN objects
           /\ collection' = collection
           /\ resolution' = resolution]_vars

\* the world corners of the visible meshes
VisibleCorners ==
    {WorldCoord(objects[n], bound_box(objects[n])[c]) :
        n \in {m \in DOMAIN objects : objects[m].type = "MESH" /\ objects[m].visible},
        c \in 1 .. 8}

\* C8: with at least one visible mesh, each axis of the computed box is the exact
\* minimum and maximum of that axis over the world corners of the visible meshes:
\* no corner lies outside and min <= max on every axis.
C8_BoundingBoxIsExactExtremum ==
    LET box == get_scene_bounding_box
        corners == VisibleCorners
    IN  corners # {}
         => \A i \in 1 .. 3 :
               LET axis == {p[i] : p \in corners}
               IN  /\ box.min[i] = Fin(SetMin(axis))
                   /\ box.max[i] = Fin(SetMax(axis))
                   /\ box.min[i][2] <= box.max[i][2]
                   /\ \A c \in axis : box.min[i][2] <= c /\ c <= box.max[i][2]

\* C8 witness: the rig was generated over two visible meshes with different world
\* matrices and a light
C8_Witness ==
    /\ last.op = "generate_cameras"
    /\ last.result = "FINISHED"
    /\ {"Cube", "Plane", "Light"} \subseteq DOMAIN objects
    /\ objects["Cube"].visible /\ objects["Cube"].xf = "turned"
    /\ objects["Plane"].visible

\* C9: after a finished Generate Cameras each of the six cameras is orthographic
\* and all share one ortho_scale, which is 1.1 times the largest extent of the
\* bounding box of the visible meshes.
C9_OneOrthoScale ==
    (last.op = "generate_cameras" /\ last.result = "FINISHED")
     => /\ \A n \in RigNames :
              /\ n \in DOMAIN objects
              /\ objects[n].cam_type = "ORTHO"
              /\ objects[n].ortho_scale = objects["Camera_X"].ortho_scale
        /\ VisibleCorners # {}
             => objects["Camera_X"].ortho_scale =
                  Fin((11 * SetMax({SetMax({p[i] : p \in VisibleCorners})
                                    - SetMin({p[i] : p \in VisibleCorners}) : i \in 1 .. 3}))
                      \div 10)

\* C9 witness: a rig generated for a model whose largest extent, 120, is along Z
C9_Witness ==
    /\ last.op = "generate_cameras"
    /\ last.result = "FINISHED"
    /\ VisibleCorners # {}
    /\ SetMax({p[1] : p \in VisibleCorners}) - SetMin({p[1] : p \in VisibleCorners}) = 40
    /\ SetMax({p[3] : p \in VisibleCorners}) - SetMin({p[3] : p \in VisibleCorners}) = 120
    /\ objects["Camera_-Z"].ortho_scale = Fin(132)

\* the coordinates at which two images are compared: the borders and the middle
\* (paste and crop move whole blocks, a wrong origin shows at every pixel)
SampleCoords(n) == {0, 1, n \div 2, n - 1} \cap (0 .. (n - 1))

SameImage(a, b) ==
    /\ a.w = b.w
    /\ a.h = b.h
    /\ \A u \in SampleCoords(a.w) : \A v \in SampleCoords(a.h) : Pixel(a, u, v) = Pixel(b, u, v)

IsBlank(a) ==
    \A u \in SampleCoords(a.w) : \A v \in SampleCoords(a.h) : Pixel(a, u, v) = Transparent

\* six 512x512 faces, one per camera of the rig
CompleteFaces == [n \in RigNames |-> SourceImage(n, 512, 512)]

\* ApplyTextures went past Image.open of a candidate
AtlasOpened == last.op \in {"apply_textures", "next_try"} /\ last.used # ""

\* C3: when the atlas ApplyTextures crops is the collage create_collage builds from
\* six 512x512 faces keyed Camera_<d>, the slot image saved as T_B_<d>.png equals
\* the face of direction d, for each of the six directions.
C3_UnpackOfPackIsIdentity ==
    (AtlasOpened /\ last.applied = "FINISHED"
        /\ files[last.used] = create_collage(CompleteFaces))
     => \A k \in DOMAIN Directions :
           SameImage(files[PngName(SlotName(Directions[k]))],
                     CompleteFaces[CameraName(Directions[k])])

\* C3 witness: the rendered collage of a complete rig was handed back as candidate 1
\* and applied
C3_Witness ==
    /\ AtlasOpened
    /\ last.applied = "FINISHED"
    /\ last.used = CandidateName(1)
    /\ files[last.used] = create_collage(CompleteFaces)
    /\ DOMAIN rendered_images = RigNames \cup {"Camera"}
    /\ Pixel(files["T_B_-Y.png"], 511, 0) = <<"Camera_-Y", 511, 0>>

\* a step of ApplyTextures (from its button or from Next Try) that opened an atlas
AtlasOpenedStep == last'.op \in {"apply_textures", "next_try"} /\ last'.used # ""

\* C4: an atlas that is not exactly 1536x1024 makes ApplyTextures fail: no
\* T_B_*.png is written and no material is bound.
C4_WrongSizeAtlasIsRejected ==
    [][(AtlasOpenedStep
         /\ ~(files[last'.used].w = 3 * 512 /\ files[last'.used].h = 2 * 512))
        => /\ last'.applied # "FINISHED"
           /\ files' = files
           /\ objects' = objects
           /\ material' = material]_vars

\* C7: for every set of rendered 512x512 faces, create_collage completes with a
\* 1536x1024 atlas whose cell i (origin ((i mod 3)*512, (i div 3)*512)) equals the
\* face of the i-th name of the order when it was rendered and is blank when not.
C7_PartialPack ==
    (last.op = "render" /\ last.result = "FINISHED")
     => /\ "collage.png" \in DOMAIN files
        /\ files["collage.png"].w = 1536
        /\ files["collage.png"].h = 1024
        /\ (\A n \in DOMAIN rendered_images :
                rendered_images[n].w = 512 /\ rendered_images[n].h = 512)
            => \A i \in 0 .. 5 :
                  LET name == CameraName(Directions[i + 1])
                      cell == ImageCrop(files["collage.png"],
                                        (i % 3) * 512, (i \div 3) * 512,
                                        (i % 3) * 512 + 512, (i \div 3) * 512 + 512)
                  IN  IF name \in DOMAIN rendered_images
                      THEN SameImage(cell, rendered_images[name])
                      ELSE IsBlank(cell)

\* C7 witness: four of the six faces were rendered and packed
C7_Witness ==
    /\ last.op = "render"
    /\ last.result = "FINISHED"
    /\ DOMAIN rendered_images = {"Camera_X", "Camera_Y", "Camera_Z", "Camera_-X"}
    /\ rendered_images["Camera_-X"].w = 512
    /\ Pixel(files["collage.png"], 0, 512) = <<"Camera_-X", 0, 0>>
    /\ Pixel(files["collage.png"], 512, 512) = Transparent

\* C10 (as claimed): at every point at most one temporary file exists and none
\* remains when the render operator has finished, whether or not os.unlink raised.
C10_NoTemporaryFileRemains ==
    /\ Cardinality(temp_files) <= 1
    /\ pc = "idle" => temp_files = {}

\* C10 (amended): the next camera is rendered only after os.unlink was called on
\* the temporary file of the camera before; the files on disk are exactly those
\* whose os.unlink raised PermissionError (each reported on the console) and, while
\* a camera's image is being read back, that camera's file: with no PermissionError
\* at most one exists at any point and none remains at the end.
C10_TemporaryFilesAreDeletedOrReported ==
    /\ temp_files = printed \cup (IF pc = "unlink" THEN {temp_path} ELSE {})
    /\ pc = "unlink" => temp_path \notin printed
    /\ Cardinality(temp_files \ printed) <= 1
    /\ (pc = "idle" /\ printed = {}) => temp_files = {}

\* C10 witness: six cameras were rendered, os.unlink raised twice, and the
\* operator finished with exactly the two reported files left
C10_Witness ==
    /\ pc = "idle"
    /\ last.op = "render"
    /\ last.result = "FINISHED"
    /\ DOMAIN rendered_images = RigNames
    /\ Cardinality(printed) = 2
    /\ temp_files = printed

\* the number of times x occurs in the sequence seq
Count(seq, x) == Cardinality({j \in DOMAIN seq : seq[j] = x})

\* a step of ApplyTextures that opened an atlas and had the material at hand
BindStep ==
    /\ AtlasOpenedStep
    /\ material.present \/ (blend_file.exists /\ blend_file.has_material)

\* C11: a binding mismatch never aborts the remaining bindings: for every selected
\* mesh and every UV Map or Image Texture node, a node without a matching UV layer
\* (or T_B_<suffix>.png file) gives exactly one warning for that object and node,
\* every node that has a match is bound, and the operator finishes.
C11_MismatchesDoNotAbortBinding ==
    [][BindStep =>
        LET nodes == material'.nodes
            meshes == {n \in DOMAIN objects : objects[n].selected /\ objects[n].type = "MESH"}
        IN  /\ last'.applied = "FINISHED"
            /\ material'.present
            /\ \A n \in meshes : objects'[n].materials = <<"ApplyTextures">>
            /\ \A k \in DOMAIN nodes : \A n \in meshes :
                  LET uv == Join(nodes[k].label)
                      png == PngName(SlotName(LastPart(nodes[k].label)))
                      uvWarning == NodeReport("WARNING", "uv_map_missing", n, nodes[k].name)
                      imWarning == NodeReport("WARNING", "image_missing", n, nodes[k].name)
                  IN  /\ nodes[k].type = "UVMAP" =>
                            IF \E j \in DOMAIN objects[n].uv_layers : objects[n].uv_layers[j] = uv
                            THEN /\ nodes[k].uv_map = uv
                                 /\ Count(last'.reports, uvWarning) = 0
                            ELSE Count(last'.reports, uvWarning) = 1
                      /\ nodes[k].type = "TEX_IMAGE" =>
                            IF png \in DOMAIN files'
                            THEN /\ nodes[k].image = png
                                 /\ Count(last'.reports, imWarning) = 0
                            ELSE Count(last'.reports, imWarning) = 1]_vars

\* C11 witness: two selected meshes were bound to a tree whose first UV Map node and
\* first Image Texture node match nothing; the nodes after them are bound
C11_Witness ==
    /\ last.op = "apply_textures"
    /\ last.result = "FINISHED"
    /\ objects["Cube"].selected /\ objects["Plane"].selected
    /\ Len(material.nodes) = Len(MixedNodes)
    /\ material.nodes[1].uv_map = "" /\ material.nodes[2].uv_map = "UV_Camera_X"
    /\ material.nodes[3].image = "" /\ material.nodes[4].image = "T_B_X.png"
    /\ material.nodes[5].uv_map = "UV_Camera_Y"
    /\ Count(last.reports, NodeReport("WARNING", "uv_map_missing", "Cube", "UV Map")) = 1
    /\ Count(last.reports, NodeReport("WARNING", "uv_map_missing", "Cube", "UV Map.002")) = 1
    /\ Count(last.reports, NodeReport("WARNING", "image_missing", "Plane", "Image Texture")) = 1

\* the member of F that follows index in increasing cyclic order
CyclicSuccessor(F, index) ==
    IF \E f \in F : f > index THEN SetMin({f \in F : f > index}) ELSE SetMin(F)

\* C12: with a fixed non-empty set F of candidates, from index 0, every Next Try
\* succeeds and moves current_output_index to the member of F that follows it in
\* increasing cyclic order (a single member is selected again), and every member
\* of F is selected again and again.
C12_CyclingVisitsEveryCandidate ==
    /\ [][NextTryStep
            => /\ last'.result = "FINISHED"
               /\ last'.applied = "FINISHED"
               /\ last'.used = CandidateName(current_output_index')
               /\ ExistingCandidates' = ExistingCandidates
               /\ current_output_index' \in ExistingCandidates
               /\ current_output_index' = CyclicSuccessor(ExistingCandidates,
                                                         current_output_index)]_vars
    /\ \A f \in 1 .. 10 :
          []<>(f \in ExistingCandidates => current_output_index = f)

\* C12 witness: with candidates {3, 7, 10}, after 10 the cycle came back to 3
\* (to a candidate it had applied before: its slot textures are in the folder)
C12_Witness ==
    /\ ExistingCandidates = {3, 7, 10}
    /\ last.op = "next_try"
    /\ last.arg = 10
    /\ last.scan = "wrap"
    /\ last.result = "FINISHED"
    /\ last.used = CandidateName(3)
    /\ current_output_index = 3
    /\ "T_B_X.png" \in DOMAIN files

\* a step of the Apply Textures operator, called with output_index = last'.arg, that
\* finds the output folder unset or its requested candidate missing
MissingCandidateStep ==
    /\ last'.op = "apply_textures"
    /\ \/ output_folder = ""
       \/ last'.arg > 0 /\ CandidateName(last'.arg) \notin DOMAIN files

\* the T_B_*.png slot files of a folder
SlotFiles(fs) ==
    [name \in {PngName(sub_texture_order[i]) : i \in DOMAIN sub_texture_order} \cap DOMAIN fs
        |-> fs[name]]

\* C13: ApplyTextures called with output_index > 0 whose AIGC_OUTPUT_<output_index>.png
\* is missing, or with the output folder unset, returns CANCELLED with one warning
\* and leaves the slot files, the objects (materials, UV layers), the material's node
\* bindings and current_output_index as they were, whatever other candidates exist.
C13_MissingCandidateChangesNothing ==
    [][MissingCandidateStep
        => /\ last'.result = "CANCELLED"
           /\ Len(last'.reports) = 1
           /\ last'.reports[1][1] = "WARNING"
           /\ SlotFiles(files') = SlotFiles(files)
           /\ files' = files
           /\ objects' = objects
           /\ material' = material
           /\ current_output_index' = current_output_index]_vars

\* C13 witness: candidate 2 was asked for and is missing while candidate 1 exists
\* and had been applied through Next Try: its slot files, the binding of the cube
\* and the index 1 are still there after the cancelled call
C13_Witness ==
    /\ last.op = "apply_textures"
    /\ last.arg = 2
    /\ last.result = "CANCELLED"
    /\ output_folder # ""
    /\ ExistingCandidates = {1}
    /\ current_output_index = 1
    /\ "T_B_-Z.png" \in DOMAIN files
    /\ objects["Cube"].materials = <<"ApplyTextures">>
    /\ material.present
    /\ \E k \in DOMAIN material.nodes : material.nodes[k].uv_map = "UV_Camera_X"

====
